---- MODULE Spec2Model ----
(***************************************************************************)
(* EtherVM: a register-based virtual CPU (src/cpu.rs), its byte-addressed  *)
(* memory (src/memory.rs) and its I/O port (src/io.rs).                    *)
(*                                                                         *)
(* A u32 (and a usize holding an address) is the record [hi, lo] of its    *)
(* two 16-bit halves, value hi * 2^16 + lo, so that the 32-bit width of    *)
(* the registers is kept exactly.                                          *)
(***************************************************************************)
EXTENDS Integers, Sequences, FiniteSets, TLC

(* ----------------------------- u32 ------------------------------------- *)

\* 2^16, the radix of the two halves of a u32
Half == 65536

\* 2^8, the radix of a byte
ByteRadix == 256

U32(h, l) == [hi |-> h, lo |-> l]

Zero32 == U32(0, 0)

One32 == U32(0, 1)

\* u32 comparison a < b
lt(a, b) == a.hi < b.hi \/ (a.hi = b.hi /\ a.lo < b.lo)

\* u32::saturating_add, which an overflow-averse handler would call instead
saturating_add(a, b) ==
    LET s == a.lo + b.lo
        h == a.hi + b.hi + (s \div Half)
    IN  IF h >= Half THEN U32(Half - 1, Half - 1) ELSE U32(h, s % Half)

\* u32::wrapping_add
wrapping_add(a, b) ==
    LET s == a.lo + b.lo
    IN  U32((a.hi + b.hi + (s \div Half)) % Half, s % Half)

\* u32::overflowing_sub: the wrapped difference and whether a < b
overflowing_sub(a, b) ==
    LET d      == a.lo - b.lo
        borrow == IF d < 0 THEN 1 ELSE 0
    IN  << U32((a.hi - b.hi - borrow + Half) % Half, (d + Half) % Half), lt(a, b) >>

\* u32::wrapping_sub
wrapping_sub(a, b) == overflowing_sub(a, b)[1]

\* the full 32-bit product of two 16-bit halves, by bytes
mul16(x, y) ==
    LET x0 == x % ByteRadix
        x1 == x \div ByteRadix
        y0 == y % ByteRadix
        y1 == y \div ByteRadix
        p0 == x0 * y0
        p1 == x1 * y0 + x0 * y1
        p2 == x1 * y1
        t  == p0 + (p1 % ByteRadix) * ByteRadix
    IN  U32(p2 + (p1 \div ByteRadix) + (t \div Half), t % Half)

\* u32::wrapping_mul: the low 32 bits of the product
wrapping_mul(a, b) ==
    LET low   == mul16(a.lo, b.lo)
        cross == (mul16(a.hi, b.lo).lo + mul16(a.lo, b.hi).lo) % Half
    IN  U32((low.hi + cross) % Half, low.lo)

\* v << 1 and v >> 1 on 32 bits
shl1(v) == wrapping_add(v, v)

shr1(v) == U32(v.hi \div 2, (v.lo \div 2) + (v.hi % 2) * (Half \div 2))

\* v >> n and v << n for n < 32, one bit at a time (the bound variable w
\* holds the value shifted so far)
RECURSIVE shr_by(_, _)
shr_by(v, n) ==
    IF n = 0 THEN v ELSE CHOOSE r \in { shr_by(w, n - 1) : w \in {shr1(v)} } : TRUE

RECURSIVE shl_by(_, _)
shl_by(v, n) ==
    IF n = 0 THEN v ELSE CHOOSE r \in { shl_by(w, n - 1) : w \in {shl1(v)} } : TRUE

\* bit i (0 = least significant) of a u32
bit(v, i) == shr_by(v, i).lo % 2

\* u32 division a / b (b /= 0): restoring long division, most significant
\* bit first; rem with the bit shifted in may need 33 bits, in which case it
\* is certainly >= b and the wrapped difference is the true one
RECURSIVE div_loop(_, _, _, _, _)
div_loop(a, b, i, q, rem) ==
    IF i < 0 THEN q
    ELSE LET carry == rem.hi >= Half \div 2
             r2    == wrapping_add(shl1(rem), U32(0, bit(a, i)))
             take  == carry \/ ~lt(r2, b)
             newq  == IF take THEN wrapping_add(shl1(q), One32) ELSE shl1(q)
             newr  == IF take THEN wrapping_sub(r2, b) ELSE r2
         IN  CHOOSE r \in { div_loop(a, b, i - 1, nq, nr) : nq \in {newq}, nr \in {newr} } : TRUE

u32_div(a, b) == div_loop(a, b, 31, Zero32, Zero32)

\* bitwise operations on a 16-bit half, bit by bit; op is "and", "or" or "xor"
bit1(op, p, q) ==
    CASE op = "and" -> p * q
      [] op = "or"  -> p + q - p * q
      [] op = "xor" -> (p + q) % 2

RECURSIVE bits16(_, _, _, _)
bits16(op, x, y, n) ==
    IF n = 0 THEN 0
    ELSE bit1(op, x % 2, y % 2) + 2 * bits16(op, x \div 2, y \div 2, n - 1)

bitand(a, b) == U32(bits16("and", a.hi, b.hi, 16), bits16("and", a.lo, b.lo, 16))

bitor(a, b) == U32(bits16("or", a.hi, b.hi, 16), bits16("or", a.lo, b.lo, 16))

bitxor(a, b) == U32(bits16("xor", a.hi, b.hi, 16), bits16("xor", a.lo, b.lo, 16))

bitnot(a) == U32(Half - 1 - a.hi, Half - 1 - a.lo)

\* u32::to_be_bytes: the most significant byte first
to_be_bytes(v) ==
    << v.hi \div ByteRadix, v.hi % ByteRadix, v.lo \div ByteRadix, v.lo % ByteRadix >>

\* u32::to_le_bytes and u32::from_le_bytes
to_le_bytes(v) ==
    << v.lo % ByteRadix, v.lo \div ByteRadix, v.hi % ByteRadix, v.hi \div ByteRadix >>

from_le_bytes(b) == U32(b[3] + b[4] * ByteRadix, b[1] + b[2] * ByteRadix)

(* ----------------------- src/memory.rs --------------------------------- *)

\* vec![0; 65536]: the number of bytes of memory
MemSize == 65536

\* a small integer as a usize
usize_of(n) == U32(n \div Half, n % Half)

\* MemoryManagementUnit::new: every byte is 0.  A memory is the function
\* from the addresses of its non-zero bytes to those bytes, every other
\* address in [0, MemSize) holding 0.
mmu_new == << >>

\* self.memory[i] for an index i < MemSize
byte_at(mem, i) == IF i \in DOMAIN mem THEN mem[i] ELSE 0

\* mem with the bytes at DOMAIN upd replaced by upd
set_bytes(mem, upd) ==
    LET val(i) == IF i \in DOMAIN upd THEN upd[i] ELSE mem[i]
        dom    == { i \in DOMAIN mem \cup DOMAIN upd : val(i) # 0 }
    IN  [i \in dom |-> val(i)]

\* index_ok as an address taken modulo the size of memory would be: every
\* address is an index
index_ok_wrapping(address) == address.lo < MemSize

\* the bound check of self.memory[address]
index_ok(address) == lt(address, usize_of(MemSize))

\* slice_ok with the end of the range taken as address + 3
slice_ok_short(address) == address.hi = 0 /\ address.lo + 3 <= MemSize

\* the bound check of self.memory[address..address + 4]: address + 4 does
\* not wrap in a 64-bit usize, and where usize has 32 bits a wrapped end
\* lies below the start, which fails the slice check as well
slice_ok(address) == address.hi = 0 /\ address.lo + 4 <= MemSize

read_byte(mem, address) == byte_at(mem, address.lo)

write_byte(mem, address, value) == set_bytes(mem, address.lo :> value)

read_word(mem, address) ==
    from_le_bytes([k \in 1..4 |-> byte_at(mem, address.lo + k - 1)])

write_word(mem, address, value) ==
    LET bytes == to_le_bytes(value)
    IN  set_bytes(mem, [i \in address.lo..(address.lo + 3) |-> bytes[i - address.lo + 1]])

(* ------------------------- the model's inputs -------------------------- *)

\* the u32 values an I/O device hands to the engine
InputVals ==
    { U32(0, 0), U32(0, 1), U32(0, 5), U32(0, 100), U32(0, 65533),
      U32(32768, 0), U32(65535, 65535) }

(* ----------------------------- state ----------------------------------- *)

VARIABLES
    registers,        \* CPU.registers: [u32; 8]
    program_counter,  \* CPU.program_counter: usize
    memory,           \* CPU.mmu.memory: Vec<u8>
    flags,            \* CPU.flags: u8
    halted,           \* CPU.halted: bool
    device,           \* the IODevice of the I/O port: "console" or "mock"
    next_input,       \* MockIOController.next_input
    last_output,      \* the last value handed to IODevice::output
    pos,              \* where the caller and CPU::run stand
    opcode,           \* the locals of one iteration of the run loop
    r1,
    r2,
    fault,            \* the panic that ended the program, "none" before
    runs,             \* the number of calls of CPU::run so far
    hist,             \* history: the last instruction whose handler returned
    insn_pc,          \* history: program_counter when the last opcode was fetched
    mmu_call          \* the last call of a memory accessor by a test of memory.rs

vars == << registers, program_counter, memory, flags, halted, device, next_input,
           last_output, pos, opcode, r1, r2, fault, runs, hist, insn_pc, mmu_call >>

io == << device, next_input, last_output >>

locals == << opcode, r1, r2 >>

(* ------------------------------ src/cpu.rs ----------------------------- *)

\* registers: [u32; 8]
NumRegs == 8

RegIdx == 0..(NumRegs - 1)

\* the bound check of self.registers[r as usize]
reg_ok(r) == r < NumRegs

\* CPU::initialize_instruction_set: opcode -> handler
instruction_set ==
    (64 :> "add") @@ (65 :> "sub") @@ (66 :> "mul") @@ (67 :> "div") @@
    (68 :> "load") @@ (69 :> "store") @@ (70 :> "input") @@ (71 :> "output") @@
    (72 :> "and") @@ (73 :> "or") @@ (74 :> "xor") @@ (75 :> "not") @@
    (76 :> "shl") @@ (77 :> "shr") @@ (78 :> "cmp") @@ (79 :> "jmp") @@
    (80 :> "je") @@ (81 :> "jne") @@ (82 :> "jg") @@ (83 :> "jl") @@
    (255 :> "halt")

(* ---------------------------- program images --------------------------- *)

insn(op, a, b) == << op, a, b >>

\* the image of cpu.rs's test_program_execution
test_program == << 70, 0, 64, 16, 71, 1, 255, 0 >>

\* the image main loads
main_program == << 70, 0, 71, 1, 64, 16, 71, 1, 78, 0, 80, 0 >>

\* INPUT R0; INPUT R1
prologue == insn(70, 0, 0) \o insn(70, 1, 0)

\* opcode bytes outside the instruction set
UnknownOpcodes == { 0, 16, 63, 84, 254 }

\* the operand bytes of the instruction under test; the last two name no register
OperandPairs ==
    { << 0, 1 >>, << 1, 0 >>, << 1, 1 >>, << 2, 0 >>, << 0, 7 >>, << 8, 1 >>, << 1, 200 >> }

\* INPUT R0; INPUT R1; <op a, b>; HALT
one_op_programs ==
    { prologue \o insn(op, ab[1], ab[2]) \o insn(255, 0, 0) :
        op \in DOMAIN instruction_set \cup UnknownOpcodes, ab \in OperandPairs }

\* the registers a, b, c of STORE a, b; LOAD c, b
StoreLoadRegs ==
    { << 0, 1, 2 >>, << 0, 1, 0 >>, << 0, 1, 1 >>, << 1, 1, 0 >>, << 0, 0, 1 >>,
      << 1, 0, 7 >>, << 2, 1, 0 >> }

\* INPUT R0; INPUT R1; STORE a, b; LOAD c, b; HALT
store_load_programs ==
    { prologue \o insn(69, t[1], t[2]) \o insn(68, t[3], t[2]) \o insn(255, 0, 0) :
        t \in StoreLoadRegs }

\* HALT; INPUT R0; OUTPUT R0; HALT: code that follows a HALT
resume_program == insn(255, 0, 0) \o insn(70, 0, 0) \o insn(71, 0, 0) \o insn(255, 0, 0)

\* the conditional jumps, and the operand byte that names their target; the
\* last names no register
CondJumps == { 80, 81, 82, 83 }

JumpRegs == { 0, 1, 2, 8 }

\* INPUT R0; INPUT R1; CMP R0, R1; <jump c>; HALT
cmp_jump_programs ==
    { prologue \o insn(78, 0, 1) \o insn(j, c, 0) \o insn(255, 0, 0) :
        j \in CondJumps, c \in JumpRegs }

\* INPUT R0; INPUT R1; CMP R0, R1; ADD R0, R1; JG R2; HALT: the operands of
\* the compare change before the jump
cmp_add_jg_program ==
    prologue \o insn(78, 0, 1) \o insn(64, 0, 1) \o insn(82, 2, 0) \o insn(255, 0, 0)

\* INPUT R0; INPUT R1; ADD R0, R1 (once or twice); JMP R0; HALT: jumps to
\* computed addresses, the last bytes of memory among them
computed_jump_programs ==
    { prologue \o insn(64, 0, 1) \o insn(79, 0, 0) \o insn(255, 0, 0),
      prologue \o insn(64, 0, 1) \o insn(64, 0, 1) \o insn(79, 0, 0) \o insn(255, 0, 0) }

\* the programs a caller loads over the one that has run
Reloads == { main_program, resume_program }

Programs ==
    { test_program, main_program, resume_program, cmp_add_jg_program }
        \cup one_op_programs \cup store_load_programs
        \cup cmp_jump_programs \cup computed_jump_programs

\* the number of calls of CPU::run the model follows
MaxRuns == 2

(* ------------------------------- history ------------------------------- *)

\* no instruction has retired, and no CMP
NoInsn ==
    [ opcode |-> -1, r1 |-> 0, r2 |-> 0, v1 |-> Zero32, v2 |-> Zero32,
      cmps |-> FALSE, c1 |-> Zero32, c2 |-> Zero32 ]

reg_or_zero(r) == IF reg_ok(r) THEN registers[r] ELSE Zero32

\* the instruction being executed, with the values its operand registers hold;
\* cmps, c1 and c2 remember the operand values of the last CMP
this_insn ==
    [ opcode |-> opcode, r1 |-> r1, r2 |-> r2, v1 |-> reg_or_zero(r1), v2 |-> reg_or_zero(r2),
      cmps |-> (opcode = 78 \/ hist.cmps),
      c1 |-> IF opcode = 78 THEN reg_or_zero(r1) ELSE hist.c1,
      c2 |-> IF opcode = 78 THEN reg_or_zero(r2) ELSE hist.c2 ]

(* ------------------------------ construction --------------------------- *)

\* CPU::new on MemoryManagementUnit::new and an I/O port; the caller has yet
\* to load a program
Init ==
    /\ registers = [i \in RegIdx |-> Zero32]
    /\ program_counter = usize_of(0)
    /\ memory = mmu_new
    /\ flags = 0
    /\ halted = FALSE
    /\ device \in { "console", "mock" }
    /\ next_input = Zero32
    /\ last_output = Zero32
    /\ pos = "new"
    /\ opcode = 0
    /\ r1 = 0
    /\ r2 = 0
    /\ fault = "none"
    /\ runs = 0
    /\ hist = NoInsn
    /\ insn_pc = usize_of(0)
    /\ mmu_call = [ op |-> "none", addr |-> usize_of(0), val |-> Zero32, ret |-> Zero32 ]

(* --------------------------- the caller's steps ------------------------ *)

\* the bytes load_program writes: program[i + 1] at address i
program_bytes(program) == [i \in 0..(Len(program) - 1) |-> program[i + 1]]

\* CPU::load_program, called on a fresh engine or between runs: it writes the
\* program from address 0 and touches nothing else.  A program longer than
\* memory panics in write_byte at index MemSize, the bytes below it written.
load_program(program) ==
    /\ pos \in { "new", "idle" }
    /\ IF Len(program) <= MemSize
       THEN /\ memory' = set_bytes(memory, program_bytes(program))
            /\ pos' = "idle"
            /\ fault' = fault
       ELSE /\ memory' = set_bytes(memory, program_bytes(SubSeq(program, 1, MemSize)))
            /\ pos' = "panic"
            /\ fault' = "OutOfBounds"
    /\ UNCHANGED << registers, program_counter, flags, halted, io, locals, runs, hist, insn_pc, mmu_call >>

\* MockIOController::set_next_input, between runs
set_next_input(value) ==
    /\ pos = "idle"
    /\ device = "mock"
    /\ next_input' = value
    /\ UNCHANGED << registers, program_counter, memory, flags, halted, device, last_output,
                    pos, locals, fault, runs, hist, insn_pc, mmu_call >>

\* CPU::run, entry: self.halted = false
run ==
    /\ pos = "idle"
    /\ runs < MaxRuns
    /\ halted' = FALSE
    /\ pos' = "loop"
    /\ runs' = runs + 1
    /\ UNCHANGED << registers, program_counter, memory, flags, io, locals, fault, hist, insn_pc, mmu_call >>

\* CPU::run, the loop's exit: while !self.halted fails, the registers are printed
run_return ==
    /\ pos = "loop"
    /\ halted
    /\ pos' = "idle"
    /\ UNCHANGED << registers, program_counter, memory, flags, halted, io, locals, fault,
                    runs, hist, insn_pc, mmu_call >>

(* ------------------------------- fetch --------------------------------- *)

\* CPU::fetch: the byte at program_counter, which then advances by one; the
\* read panics when program_counter is no index of memory
fetch_ok == index_ok(program_counter)

fetched == read_byte(memory, program_counter)

after_fetch == wrapping_add(program_counter, usize_of(1))

fetch_panic ==
    /\ pos' = "panic"
    /\ fault' = "OutOfBounds"
    /\ UNCHANGED << registers, program_counter, memory, flags, halted, io, locals, runs,
                    hist, insn_pc, mmu_call >>

\* fetch_opcode as a loop that tests halted only after the first iteration
\* would run it: the fetch happens whatever halted holds
fetch_opcode_unguarded ==
    /\ pos = "loop"
    /\ IF fetch_ok
       THEN /\ opcode' = fetched
            /\ insn_pc' = program_counter
            /\ program_counter' = after_fetch
            /\ pos' = "r1"
            /\ UNCHANGED << registers, memory, flags, halted, io, r1, r2, fault, runs,
                            hist, mmu_call >>
       ELSE fetch_panic

\* let opcode = self.fetch()
fetch_opcode ==
    /\ pos = "loop"
    /\ ~halted
    /\ IF fetch_ok
       THEN /\ opcode' = fetched
            /\ insn_pc' = program_counter
            /\ program_counter' = after_fetch
            /\ pos' = "r1"
            /\ UNCHANGED << registers, memory, flags, halted, io, r1, r2, fault, runs,
                            hist, mmu_call >>
       ELSE fetch_panic

\* decode_and_execute: let r1 = self.fetch()
fetch_r1 ==
    /\ pos = "r1"
    /\ IF fetch_ok
       THEN /\ r1' = fetched
            /\ program_counter' = after_fetch
            /\ pos' = "r2"
            /\ UNCHANGED << registers, memory, flags, halted, io, opcode, r2, fault, runs,
                            hist, insn_pc, mmu_call >>
       ELSE fetch_panic

\* fetch_r2 as a decoder of two-byte instructions would be: no third byte is
\* fetched
fetch_r2_absent ==
    /\ pos = "r2"
    /\ r2' = 0
    /\ pos' = "dispatch"
    /\ UNCHANGED << registers, program_counter, memory, flags, halted, io, opcode, r1, fault,
                    runs, hist, insn_pc, mmu_call >>

\* decode_and_execute: let r2 = self.fetch()
fetch_r2 ==
    /\ pos = "r2"
    /\ IF fetch_ok
       THEN /\ r2' = fetched
            /\ program_counter' = after_fetch
            /\ pos' = "dispatch"
            /\ UNCHANGED << registers, memory, flags, halted, io, opcode, r1, fault, runs,
                            hist, insn_pc, mmu_call >>
       ELSE fetch_panic

(* ------------------------ decode_and_execute --------------------------- *)

\* self.instruction_set.get(&opcode) finds the handler called name
dispatching(name) ==
    /\ pos = "dispatch"
    /\ opcode \in DOMAIN instruction_set
    /\ instruction_set[opcode] = name

\* the handler returns and the loop tests halted again
handler_returns ==
    /\ pos' = "loop"
    /\ hist' = this_insn
    /\ UNCHANGED << locals, fault, runs, insn_pc, mmu_call >>

\* the handler panics before it changes anything
handler_panics(kind) ==
    /\ pos' = "panic"
    /\ fault' = kind
    /\ UNCHANGED << registers, program_counter, memory, flags, halted, io, locals, runs,
                    hist, insn_pc, mmu_call >>

\* unknown_opcode as a dispatch that ignores a missing handler would be: the
\* instruction is skipped
unknown_opcode_skipped ==
    /\ pos = "dispatch"
    /\ opcode \notin DOMAIN instruction_set
    /\ pos' = "loop"
    /\ UNCHANGED << registers, program_counter, memory, flags, halted, io, locals, fault,
                    runs, hist, insn_pc, mmu_call >>

\* panic!("Unknown opcode: {:02X}", opcode)
unknown_opcode ==
    /\ pos = "dispatch"
    /\ opcode \notin DOMAIN instruction_set
    /\ handler_panics("UnknownOpcode")

(* --------------------------- the handlers ------------------------------ *)

\* add as a handler that reports a zero sum in the Zero flag would be
add_sets_flags ==
    /\ dispatching("add")
    /\ IF reg_ok(r1) /\ reg_ok(r2)
       THEN /\ registers' = [registers EXCEPT ![r1] = wrapping_add(registers[r1], registers[r2])]
            /\ flags' = IF wrapping_add(registers[r1], registers[r2]) = Zero32
                         THEN 2 * (flags \div 2) + 1
                         ELSE flags
            /\ UNCHANGED << program_counter, memory, halted, io >>
            /\ handler_returns
       ELSE handler_panics("IndexOutOfBounds")

\* CPU::add: registers[r1] = registers[r1].wrapping_add(registers[r2])
add ==
    /\ dispatching("add")
    /\ IF reg_ok(r1) /\ reg_ok(r2)
       THEN /\ registers' = [registers EXCEPT ![r1] = wrapping_add(registers[r1], registers[r2])]
            /\ UNCHANGED << program_counter, memory, flags, halted, io >>
            /\ handler_returns
       ELSE handler_panics("IndexOutOfBounds")

\* CPU::sub: registers[r1] = registers[r1].wrapping_sub(registers[r2])
sub ==
    /\ dispatching("sub")
    /\ IF reg_ok(r1) /\ reg_ok(r2)
       THEN /\ registers' = [registers EXCEPT ![r1] = wrapping_sub(registers[r1], registers[r2])]
            /\ UNCHANGED << program_counter, memory, flags, halted, io >>
            /\ handler_returns
       ELSE handler_panics("IndexOutOfBounds")

\* CPU::mul: registers[r1] = registers[r1].wrapping_mul(registers[r2])
mul ==
    /\ dispatching("mul")
    /\ IF reg_ok(r1) /\ reg_ok(r2)
       THEN /\ registers' = [registers EXCEPT ![r1] = wrapping_mul(registers[r1], registers[r2])]
            /\ UNCHANGED << program_counter, memory, flags, halted, io >>
            /\ handler_returns
       ELSE handler_panics("IndexOutOfBounds")

\* div as a handler that tests the dividend for zero would be
div_tests_dividend ==
    /\ dispatching("div")
    /\ IF ~(reg_ok(r1) /\ reg_ok(r2))
       THEN handler_panics("IndexOutOfBounds")
       ELSE IF registers[r1] = Zero32
       THEN handler_panics("DivisionByZero")
       ELSE /\ registers' = [registers EXCEPT ![r1] = u32_div(registers[r1], registers[r2])]
            /\ UNCHANGED << program_counter, memory, flags, halted, io >>
            /\ handler_returns

\* CPU::div: registers[r1] /= registers[r2] unless registers[r2] is 0
div ==
    /\ dispatching("div")
    /\ IF ~reg_ok(r2)
       THEN handler_panics("IndexOutOfBounds")
       ELSE IF registers[r2] = Zero32
       THEN handler_panics("DivisionByZero")
       ELSE IF ~reg_ok(r1)
       THEN handler_panics("IndexOutOfBounds")
       ELSE /\ registers' = [registers EXCEPT ![r1] = u32_div(registers[r1], registers[r2])]
            /\ UNCHANGED << program_counter, memory, flags, halted, io >>
            /\ handler_returns

\* CPU::load: registers[r1] = mmu.read_word(registers[r2] as usize); the word
\* is read before registers[r1] is indexed
load ==
    /\ dispatching("load")
    /\ IF ~reg_ok(r2)
       THEN handler_panics("IndexOutOfBounds")
       ELSE IF ~slice_ok(registers[r2])
       THEN handler_panics("OutOfBounds")
       ELSE IF ~reg_ok(r1)
       THEN handler_panics("IndexOutOfBounds")
       ELSE /\ registers' = [registers EXCEPT ![r1] = read_word(memory, registers[r2])]
            /\ UNCHANGED << program_counter, memory, flags, halted, io >>
            /\ handler_returns

\* store with its operands swapped: the word registers[r2] at address registers[r1]
store_swapped ==
    /\ dispatching("store")
    /\ IF ~(reg_ok(r1) /\ reg_ok(r2))
       THEN handler_panics("IndexOutOfBounds")
       ELSE IF ~slice_ok(registers[r1])
       THEN handler_panics("OutOfBounds")
       ELSE /\ memory' = write_word(memory, registers[r1], registers[r2])
            /\ UNCHANGED << registers, program_counter, flags, halted, io >>
            /\ handler_returns

\* store as four calls of write_byte would be: the bytes below the end of
\* memory are written before the panic
store_bytewise ==
    /\ dispatching("store")
    /\ IF ~(reg_ok(r1) /\ reg_ok(r2))
       THEN handler_panics("IndexOutOfBounds")
       ELSE IF ~slice_ok(registers[r2])
       THEN /\ memory' =
                 IF registers[r2].hi = 0
                 THEN set_bytes(memory,
                        [i \in registers[r2].lo..(MemSize - 1) |->
                            to_le_bytes(registers[r1])[i - registers[r2].lo + 1]])
                 ELSE memory
            /\ pos' = "panic"
            /\ fault' = "OutOfBounds"
            /\ UNCHANGED << registers, program_counter, flags, halted, io, locals, runs,
                            hist, insn_pc, mmu_call >>
       ELSE /\ memory' = write_word(memory, registers[r2], registers[r1])
            /\ UNCHANGED << registers, program_counter, flags, halted, io >>
            /\ handler_returns

\* CPU::store: mmu.write_word(registers[r2] as usize, registers[r1]); both
\* registers are read before write_word is entered
store ==
    /\ dispatching("store")
    /\ IF ~(reg_ok(r1) /\ reg_ok(r2))
       THEN handler_panics("IndexOutOfBounds")
       ELSE IF ~slice_ok(registers[r2])
       THEN handler_panics("OutOfBounds")
       ELSE /\ memory' = write_word(memory, registers[r2], registers[r1])
            /\ UNCHANGED << registers, program_counter, flags, halted, io >>
            /\ handler_returns

\* IODevice::input: the mock hands out next_input, the console the number
\* typed (0 for a line that is no number)
device_input == IF device = "mock" THEN { next_input } ELSE InputVals

\* CPU::input: registers[r1] = io_controller.input(); the device is asked
\* before registers[r1] is indexed
input ==
    /\ dispatching("input")
    /\ \E value \in device_input :
         IF reg_ok(r1)
         THEN /\ registers' = [registers EXCEPT ![r1] = value]
              /\ UNCHANGED << program_counter, memory, flags, halted, io >>
              /\ handler_returns
         ELSE handler_panics("IndexOutOfBounds")

\* CPU::output: io_controller.output(registers[r1])
output ==
    /\ dispatching("output")
    /\ IF reg_ok(r1)
       THEN /\ last_output' = registers[r1]
            /\ UNCHANGED << registers, program_counter, memory, flags, halted, device,
                            next_input >>
            /\ handler_returns
       ELSE handler_panics("IndexOutOfBounds")

\* CPU::and: registers[r1] &= registers[r2]
and ==
    /\ dispatching("and")
    /\ IF reg_ok(r1) /\ reg_ok(r2)
       THEN /\ registers' = [registers EXCEPT ![r1] = bitand(registers[r1], registers[r2])]
            /\ UNCHANGED << program_counter, memory, flags, halted, io >>
            /\ handler_returns
       ELSE handler_panics("IndexOutOfBounds")

\* CPU::or: registers[r1] |= registers[r2]
or ==
    /\ dispatching("or")
    /\ IF reg_ok(r1) /\ reg_ok(r2)
       THEN /\ registers' = [registers EXCEPT ![r1] = bitor(registers[r1], registers[r2])]
            /\ UNCHANGED << program_counter, memory, flags, halted, io >>
            /\ handler_returns
       ELSE handler_panics("IndexOutOfBounds")

\* CPU::xor: registers[r1] ^= registers[r2]
xor ==
    /\ dispatching("xor")
    /\ IF reg_ok(r1) /\ reg_ok(r2)
       THEN /\ registers' = [registers EXCEPT ![r1] = bitxor(registers[r1], registers[r2])]
            /\ UNCHANGED << program_counter, memory, flags, halted, io >>
            /\ handler_returns
       ELSE handler_panics("IndexOutOfBounds")

\* not as a handler that keeps the low three bits of the operand byte would
\* be: every byte names a register
not_masked ==
    /\ dispatching("not")
    /\ registers' = [registers EXCEPT ![r1 % NumRegs] = bitnot(registers[r1 % NumRegs])]
    /\ UNCHANGED << program_counter, memory, flags, halted, io >>
    /\ handler_returns

\* CPU::not: registers[r1] = !registers[r1]
not ==
    /\ dispatching("not")
    /\ IF reg_ok(r1)
       THEN /\ registers' = [registers EXCEPT ![r1] = bitnot(registers[r1])]
            /\ UNCHANGED << program_counter, memory, flags, halted, io >>
            /\ handler_returns
       ELSE handler_panics("IndexOutOfBounds")

\* the width of a register in bits
RegBits == 32

\* a shift amount the u32 shift operators take without overflow
shift_ok(amount) == amount.hi = 0 /\ amount.lo < RegBits

\* the amount a build without overflow checks shifts by
shift_masked(amount) == amount.lo % RegBits

\* CPU::shl: registers[r1] <<= registers[r2].  An amount of 32 or more
\* panics in a build with overflow checks and is masked to its low five
\* bits in a build without them.
shl ==
    /\ dispatching("shl")
    /\ IF ~(reg_ok(r1) /\ reg_ok(r2))
       THEN handler_panics("IndexOutOfBounds")
       ELSE \/ /\ ~shift_ok(registers[r2])
               /\ handler_panics("ShiftOverflow")
            \/ /\ registers' = [registers EXCEPT
                                  ![r1] = shl_by(registers[r1], shift_masked(registers[r2]))]
               /\ UNCHANGED << program_counter, memory, flags, halted, io >>
               /\ handler_returns

\* CPU::shr: registers[r1] >>= registers[r2], as shl
shr ==
    /\ dispatching("shr")
    /\ IF ~(reg_ok(r1) /\ reg_ok(r2))
       THEN handler_panics("IndexOutOfBounds")
       ELSE \/ /\ ~shift_ok(registers[r2])
               /\ handler_panics("ShiftOverflow")
            \/ /\ registers' = [registers EXCEPT
                                  ![r1] = shr_by(registers[r1], shift_masked(registers[r2]))]
               /\ UNCHANGED << program_counter, memory, flags, halted, io >>
               /\ handler_returns

\* x | y and x & y on a u8
or8(p, q) == bits16("or", p, q, 8)

and8(p, q) == bits16("and", p, q, 8)

\* cmp_flags with the difference tested for zero on its low 16 bits only
cmp_flags_low_half(a, b) ==
    LET res      == overflowing_sub(a, b)
        result   == res[1]
        overflow == res[2]
        f0 == 0
        f1 == IF result.lo = 0 THEN or8(f0, 1) ELSE f0
        f2 == IF result.hi >= Half \div 2 THEN or8(f1, 2) ELSE f1
        f3 == IF overflow THEN or8(f2, 4) ELSE f2
    IN  f3

\* the flags CPU::cmp computes from registers a and b
cmp_flags(a, b) ==
    LET res      == overflowing_sub(a, b)
        result   == res[1]
        overflow == res[2]
        f0 == 0
        f1 == IF result = Zero32 THEN or8(f0, 1) ELSE f0
        f2 == IF result.hi >= Half \div 2 THEN or8(f1, 2) ELSE f1
        f3 == IF overflow THEN or8(f2, 4) ELSE f2
    IN  f3

\* cmp without its self.flags = 0 would be: the bits of earlier compares stay
cmp_accumulating ==
    /\ dispatching("cmp")
    /\ IF reg_ok(r1) /\ reg_ok(r2)
       THEN /\ flags' = or8(flags, cmp_flags(registers[r1], registers[r2]))
            /\ UNCHANGED << registers, program_counter, memory, halted, io >>
            /\ handler_returns
       ELSE handler_panics("IndexOutOfBounds")

\* CPU::cmp
cmp ==
    /\ dispatching("cmp")
    /\ IF reg_ok(r1) /\ reg_ok(r2)
       THEN /\ flags' = cmp_flags(registers[r1], registers[r2])
            /\ UNCHANGED << registers, program_counter, memory, halted, io >>
            /\ handler_returns
       ELSE handler_panics("IndexOutOfBounds")

\* CPU::jmp: program_counter = registers[r1] as usize
jmp ==
    /\ dispatching("jmp")
    /\ IF TRUE
       THEN IF reg_ok(r1)
            THEN /\ program_counter' = registers[r1]
                 /\ UNCHANGED << registers, memory, flags, halted, io >>
                 /\ handler_returns
            ELSE handler_panics("IndexOutOfBounds")
       ELSE /\ UNCHANGED << registers, program_counter, memory, flags, halted, io >>
            /\ handler_returns

\* CPU::je: jump if flags & 0b0001 != 0
je ==
    /\ dispatching("je")
    /\ IF and8(flags, 1) # 0
       THEN IF reg_ok(r1)
            THEN /\ program_counter' = registers[r1]
                 /\ UNCHANGED << registers, memory, flags, halted, io >>
                 /\ handler_returns
            ELSE handler_panics("IndexOutOfBounds")
       ELSE /\ UNCHANGED << registers, program_counter, memory, flags, halted, io >>
            /\ handler_returns

\* CPU::jne: jump if flags & 0b0001 == 0
jne ==
    /\ dispatching("jne")
    /\ IF and8(flags, 1) = 0
       THEN IF reg_ok(r1)
            THEN /\ program_counter' = registers[r1]
                 /\ UNCHANGED << registers, memory, flags, halted, io >>
                 /\ handler_returns
            ELSE handler_panics("IndexOutOfBounds")
       ELSE /\ UNCHANGED << registers, program_counter, memory, flags, halted, io >>
            /\ handler_returns

\* jg as a test of the Zero flag alone would be: the Negative flag is ignored
jg_ignores_negative ==
    /\ dispatching("jg")
    /\ IF and8(flags, 1) = 0
       THEN IF reg_ok(r1)
            THEN /\ program_counter' = registers[r1]
                 /\ UNCHANGED << registers, memory, flags, halted, io >>
                 /\ handler_returns
            ELSE handler_panics("IndexOutOfBounds")
       ELSE /\ UNCHANGED << registers, program_counter, memory, flags, halted, io >>
            /\ handler_returns

\* CPU::jg: jump if flags & 0b0011 == 0
jg ==
    /\ dispatching("jg")
    /\ IF and8(flags, 3) = 0
       THEN IF reg_ok(r1)
            THEN /\ program_counter' = registers[r1]
                 /\ UNCHANGED << registers, memory, flags, halted, io >>
                 /\ handler_returns
            ELSE handler_panics("IndexOutOfBounds")
       ELSE /\ UNCHANGED << registers, program_counter, memory, flags, halted, io >>
            /\ handler_returns

\* CPU::jl: jump if flags & 0b0010 != 0
jl ==
    /\ dispatching("jl")
    /\ IF and8(flags, 2) # 0
       THEN IF reg_ok(r1)
            THEN /\ program_counter' = registers[r1]
                 /\ UNCHANGED << registers, memory, flags, halted, io >>
                 /\ handler_returns
            ELSE handler_panics("IndexOutOfBounds")
       ELSE /\ UNCHANGED << registers, program_counter, memory, flags, halted, io >>
            /\ handler_returns

\* CPU::halt
halt ==
    /\ dispatching("halt")
    /\ halted' = TRUE
    /\ UNCHANGED << registers, program_counter, memory, flags, io >>
    /\ handler_returns

(* --------------------------- specification ----------------------------- *)

Next ==
    \/ \E program \in (IF pos = "new" THEN Programs ELSE Reloads) : load_program(program)
    \/ \E value \in InputVals : set_next_input(value)
    \/ run
    \/ run_return
    \/ fetch_opcode
    \/ fetch_r1
    \/ fetch_r2
    \/ unknown_opcode
    \/ add
    \/ sub
    \/ mul
    \/ div
    \/ load
    \/ store
    \/ input
    \/ output
    \/ and
    \/ or
    \/ xor
    \/ not
    \/ shl
    \/ shr
    \/ cmp
    \/ jmp
    \/ je
    \/ jne
    \/ jg
    \/ jl
    \/ halt

Spec == Init /\ [][Next]_vars

(* ------------------- the memory unit on its own ------------------------ *)

\* the addresses, bytes and words the tests of memory.rs call the accessors with
MmuByteAddrs ==
    { usize_of(0), usize_of(1), usize_of(2), usize_of(3), usize_of(65535),
      usize_of(65536), U32(65535, 65535) }

MmuWordAddrs ==
    { usize_of(0), usize_of(65532), usize_of(65533), usize_of(65534), usize_of(65535),
      usize_of(65536), U32(65535, 65532), U32(65535, 65535) }

MmuBytes == { 0, 1, 255 }

MmuWords == { Zero32, U32(4660, 22136), U32(65535, 65535) }

\* a test's accessor call panics: the index is out of bounds
mmu_panics(call) ==
    /\ mmu_call' = call
    /\ pos' = "panic"
    /\ fault' = "OutOfBounds"
    /\ UNCHANGED << registers, program_counter, memory, flags, halted, io, locals, runs, hist, insn_pc >>

\* a test's accessor call returns, memory being mem afterwards
mmu_returns(call, mem) ==
    /\ mmu_call' = call
    /\ memory' = mem
    /\ UNCHANGED << registers, program_counter, flags, halted, io, pos, locals, fault,
                    runs, hist, insn_pc >>

\* mmu.read_byte(address)
call_read_byte(address) ==
    /\ pos = "new"
    /\ LET call == [ op |-> "read_byte", addr |-> address, val |-> 0, ret |-> 0 ]
       IN  IF index_ok(address)
           THEN mmu_returns([call EXCEPT !.ret = read_byte(memory, address)], memory)
           ELSE mmu_panics(call)

\* mmu.write_byte(address, value)
call_write_byte(address, value) ==
    /\ pos = "new"
    /\ LET call == [ op |-> "write_byte", addr |-> address, val |-> value, ret |-> 0 ]
       IN  IF index_ok(address)
           THEN mmu_returns(call, write_byte(memory, address, value))
           ELSE mmu_panics(call)

\* mmu.read_word(address)
call_read_word(address) ==
    /\ pos = "new"
    /\ LET call == [ op |-> "read_word", addr |-> address, val |-> Zero32, ret |-> Zero32 ]
       IN  IF slice_ok(address)
           THEN mmu_returns([call EXCEPT !.ret = read_word(memory, address)], memory)
           ELSE mmu_panics(call)

\* mmu.write_word(address, value)
call_write_word(address, value) ==
    /\ pos = "new"
    /\ LET call == [ op |-> "write_word", addr |-> address, val |-> value, ret |-> Zero32 ]
       IN  IF slice_ok(address)
           THEN mmu_returns(call, write_word(memory, address, value))
           ELSE mmu_panics(call)

NextMmu ==
    \/ \E address \in MmuByteAddrs : call_read_byte(address)
    \/ \E address \in MmuByteAddrs, value \in MmuBytes : call_write_byte(address, value)
    \/ \E address \in MmuWordAddrs : call_read_word(address)
    \/ \E address \in MmuWordAddrs, value \in MmuWords : call_write_word(address, value)

\* a memory unit that no engine owns yet
InitMmu == Init /\ device = "console"

SpecMmu == InitMmu /\ [][NextMmu]_vars

(***************************************************************************)
(* Properties                                                              *)
(***************************************************************************)

\* the bytes of memory after load_program(program) on a fresh engine
image(program) == set_bytes(mmu_new, program_bytes(program))

Five32 == U32(0, 5)

Max32 == U32(65535, 65535)

\* the first run of the test's program on a fresh engine whose mock device
\* holds the input 5 (next_input cannot change while run is active)
TestScenario ==
    /\ device = "mock"
    /\ next_input = Five32
    /\ runs = 1
    /\ memory = image(test_program)
    /\ pos # "idle"

\* C1: from a fresh engine, the test's byte image run with injected input 5
\* never faults and, when the loop ends, halted is true, R0 = 5, R1 = 5 and
\* the last output is 5.
C1_TestProgramExecution ==
    TestScenario =>
        /\ fault = "none"
        /\ pos # "panic"
        /\ (pos = "loop" /\ halted) =>
              /\ registers[0] = Five32
              /\ registers[1] = Five32
              /\ last_output = Five32

\* C2: once a run has ended with halted = true, a second run on the same
\* engine fetches nothing and never sets halted back to false: from the second
\* call of run on, halted stays true and the engine stands at the call or at
\* the loop's exit test.
C2_SecondRunIsNoOp ==
    runs >= 2 => (halted /\ pos \in { "idle", "loop" })

\* C3: within a run, halted becomes true only in the handler of opcode 0xFF;
\* once it is true at the loop test the only step is the return of run, which
\* changes no register, flag, memory byte or PC; and run returns only when
\* halted is true.
C3_HaltEndsRun ==
    [][ /\ (~halted /\ halted') => (pos = "dispatch" /\ opcode = 255)
        /\ (pos = "loop" /\ halted) =>
              /\ pos' = "idle"
              /\ UNCHANGED << registers, flags, memory, program_counter, halted,
                              last_output >>
        /\ (pos = "loop" /\ pos' = "idle") => halted
        /\ (pos \in { "r1", "r2", "dispatch" } => pos' # "idle")
      ]_vars

\* C3 witness: a HALT has just completed inside a run
C3_Witness == pos = "loop" /\ halted /\ hist.opcode = 255 /\ hist.r1 = 0

\* the 21 opcodes of the table: 0x40..0x53 and 0xFF
TableOpcodes == (64..83) \cup { 255 }

\* C4: an opcode byte outside the 21 table entries, whatever the operand
\* bytes, ends the run with UnknownOpcode: no handler effect, and nothing
\* ever executes after a fault.
C4_UnknownOpcodeAborts ==
    [][ /\ (pos = "dispatch" /\ opcode \notin TableOpcodes) =>
              /\ pos' = "panic"
              /\ fault' = "UnknownOpcode"
              /\ UNCHANGED << registers, flags, memory, program_counter, halted,
                              last_output, hist >>
        /\ pos # "panic"
      ]_vars

\* C4 witness: the run aborted on opcode 0xFE with operand bytes 1 and 200
C4_Witness ==
    pos = "panic" /\ fault = "UnknownOpcode" /\ opcode = 254 /\ r1 = 1 /\ r2 = 200

(* ------------- 32-bit arithmetic stated on base-256 digits ------------- *)

\* the four base-256 digits of a u32, least significant first, indexed 0..3
digits(v) ==
    [k \in 0..3 |-> CASE k = 0 -> v.lo % 256
                      [] k = 1 -> v.lo \div 256
                      [] k = 2 -> v.hi % 256
                      [] k = 3 -> v.hi \div 256]

\* the u32 with digits d
undigits(d) == U32(d[2] + 256 * d[3], d[0] + 256 * d[1])

\* digit columns c (each a natural number) reduced mod 2^32
reduce(c) ==
    LET t0 == c[0]
        t1 == c[1] + (t0 \div 256)
        t2 == c[2] + (t1 \div 256)
        t3 == c[3] + (t2 \div 256)
    IN  undigits([k \in 0..3 |->
            CASE k = 0 -> t0 % 256 [] k = 1 -> t1 % 256 [] k = 2 -> t2 % 256 [] k = 3 -> t3 % 256])

\* (a + b) mod 2^32
sum_mod(a, b) == reduce([k \in 0..3 |-> digits(a)[k] + digits(b)[k]])

\* (a - b) mod 2^32: a plus the two's complement of b
diff_mod(a, b) ==
    reduce([k \in 0..3 |-> digits(a)[k] + (255 - digits(b)[k]) + (IF k = 0 THEN 1 ELSE 0)])

\* the digit columns of a * b: column k sums the products a_i * b_j, i + j = k
columns(a, b) ==
    [k \in 0..7 |->
        LET ij == { p \in (0..3) \X (0..3) : p[1] + p[2] = k }
            RECURSIVE total(_)
            total(S) == IF S = {} THEN 0
                        ELSE LET p == CHOOSE q \in S : TRUE
                             IN  digits(a)[p[1]] * digits(b)[p[2]] + total(S \ {p})
        IN  total(ij)]

\* (a * b) mod 2^32
prod_mod(a, b) == reduce(columns(a, b))

\* a * b < 2^32: no digit of the full product above the fourth is non-zero
prod_fits(a, b) ==
    LET c  == columns(a, b)
        t0 == c[0]
        t1 == c[1] + (t0 \div 256)
        t2 == c[2] + (t1 \div 256)
        t3 == c[3] + (t2 \div 256)
        t4 == c[4] + (t3 \div 256)
    IN  t4 = 0 /\ c[5] = 0 /\ c[6] = 0 /\ c[7] = 0

\* a <= b as unsigned 32-bit values
le32(a, b) == a.hi < b.hi \/ (a.hi = b.hi /\ a.lo <= b.lo)

\* q is the truncating quotient a / b: q * b <= a < q * b + b
is_quotient(q, a, b) ==
    /\ prod_fits(q, b)
    /\ le32(prod_mod(q, b), a)
    /\ ~le32(b, diff_mod(a, prod_mod(q, b)))

\* the handler of opcode op is about to run on two registers of the file
executing(op) == pos = "dispatch" /\ opcode = op /\ r1 \in RegIdx /\ r2 \in RegIdx

\* the handler returned normally
retired == pos' = "loop" /\ fault' = "none"

\* C5: DIV r1, r2 with R[r2] = 0 fails with DivisionByZero whatever R[r1]
\* holds (r1 = r2 included); otherwise R[r1] becomes the truncating quotient
\* R[r1] / R[r2] and no other register changes.
C5_Div ==
    [][ executing(67) =>
          IF registers[r2] = Zero32
          THEN pos' = "panic" /\ fault' = "DivisionByZero" /\ registers' = registers
          ELSE /\ retired
               /\ is_quotient(registers'[r1], registers[r1], registers[r2])
               /\ \A i \in RegIdx \ { r1 } : registers'[i] = registers[i]
      ]_vars

\* C5 witness: 65533 / 5 was truncated to 13106
C5_Witness ==
    /\ hist.opcode = 67
    /\ hist.v1 = U32(0, 65533)
    /\ hist.v2 = Five32
    /\ registers[hist.r1] = U32(0, 13106)

\* C6: ADD, SUB and MUL set R[r1] to (R[r1] op R[r2]) mod 2^32 for all
\* register values and indices (r1 = r2 included), never fault, and leave
\* the other registers, the flags and memory unchanged.
C6_WrappingArithmetic ==
    [][ \A op \in { 64, 65, 66 } :
          executing(op) =>
            /\ retired
            /\ registers'[r1] =
                 CASE op = 64 -> sum_mod(registers[r1], registers[r2])
                   [] op = 65 -> diff_mod(registers[r1], registers[r2])
                   [] op = 66 -> prod_mod(registers[r1], registers[r2])
            /\ \A i \in RegIdx \ { r1 } : registers'[i] = registers[i]
            /\ UNCHANGED << flags, memory >>
      ]_vars

\* C6 witness: ADD of 0xFFFFFFFF and 1 wrapped to 0
C6_Witness ==
    /\ hist.opcode = 64
    /\ hist.v1 = Max32
    /\ hist.v2 = One32
    /\ registers[hist.r1] = Zero32

\* the bytes of mem at address.lo .. address.lo + 3, indexed 0..3
four_bytes(mem, address) == [k \in 0..3 |-> byte_at(mem, address.lo + k)]

\* every byte of mem2 outside the index set S is the byte of mem1
same_outside(mem1, mem2, S) ==
    \A i \in (DOMAIN mem1 \cup DOMAIN mem2) \ S : byte_at(mem2, i) = byte_at(mem1, i)

\* address + 3 < 65536
word_in_range(address) == address.hi = 0 /\ address.lo + 3 < 65536

\* address < 65536
byte_in_range(address) == address.hi = 0

\* C7: for a + 3 < 65536, write_word(a, v) stores the bytes of v least
\* significant first at a .. a + 3 and changes no other byte, so read_word(a)
\* and the four read_byte then give v back; read_word(a) is the little-endian
\* composition of the four bytes at a, however write_byte put them there.
C7_WordRoundTrip ==
    [][ LET call == mmu_call'
            a    == call.addr
        IN  /\ (call.op = "write_word" /\ word_in_range(a)) =>
                 /\ fault' = "none"
                 /\ undigits(four_bytes(memory', a)) = call.val
                 /\ \A k \in 0..3 :
                      /\ byte_at(memory', a.lo + k) \in 0..255
                      /\ read_byte(memory', usize_of(a.lo + k)) = digits(call.val)[k]
                 /\ same_outside(memory, memory', a.lo..(a.lo + 3))
                 /\ read_word(memory', a) = call.val
            /\ (call.op = "read_word" /\ word_in_range(a)) =>
                 /\ fault' = "none"
                 /\ call.ret = undigits(four_bytes(memory, a))
                 /\ memory' = memory
            /\ (call.op = "write_byte" /\ byte_in_range(a)) =>
                 /\ fault' = "none"
                 /\ byte_at(memory', a.lo) = call.val
                 /\ same_outside(memory, memory', { a.lo })
      ]_vars

\* C7 witness: write_word(65532, 0x12345678) left 0x78 0x56 0x34 0x12 in
\* the last four bytes of a memory that holds other bytes as well
C7_Witness ==
    /\ mmu_call.op = "write_word"
    /\ mmu_call.addr = usize_of(65532)
    /\ mmu_call.val = U32(4660, 22136)
    /\ byte_at(memory, 65532) = 120
    /\ byte_at(memory, 65535) = 18
    /\ byte_at(memory, 1) = 255
    /\ byte_at(memory, 2) = 1

\* C8: read_byte and write_byte fail with OutOfBounds exactly when
\* addr >= 65536, read_word and write_word exactly when addr + 3 >= 65536,
\* and a failing call leaves every byte of memory unchanged.
C8_BoundChecks ==
    [][ LET call == mmu_call'
        IN  /\ call.op \in { "read_byte", "write_byte" } =>
                 ((pos' = "panic" /\ fault' = "OutOfBounds") <=> ~byte_in_range(call.addr))
            /\ call.op \in { "read_word", "write_word" } =>
                 ((pos' = "panic" /\ fault' = "OutOfBounds") <=> ~word_in_range(call.addr))
            /\ fault' # "none" => memory' = memory
            /\ (fault' = "none") <=> (pos' # "panic")
      ]_vars

\* C8 witness: write_word(65533, v) failed on a memory that holds bytes
C8_Witness ==
    /\ pos = "panic"
    /\ fault = "OutOfBounds"
    /\ mmu_call.op = "write_word"
    /\ mmu_call.addr = usize_of(65533)
    /\ mmu_call.val = Max32
    /\ byte_at(memory, 65535) = 1

\* C9: STORE a, b followed immediately by LOAD c, b, with R[b] + 3 < 65536,
\* leaves in R[c] the value R[a] held when STORE executed; STORE changes no
\* register and LOAD changes no byte of memory.
C9_StoreLoadRoundTrip ==
    [][ /\ (executing(68) /\ hist.opcode = 69 /\ hist.r2 = r2 /\ hist.r1 \in RegIdx
              /\ word_in_range(registers[r2])) =>
                 /\ retired
                 /\ registers'[r1] = hist.v1
        /\ (executing(68) /\ word_in_range(registers[r2])) => (retired /\ memory' = memory)
        /\ (executing(69) /\ word_in_range(registers[r2])) =>
                 (retired /\ registers' = registers)
      ]_vars

\* C9 witness: STORE R0, R1; LOAD R2, R1 with R0 = 0xFFFFFFFF and R1 = 100
\* has brought 0xFFFFFFFF into R2
C9_Witness ==
    /\ hist.opcode = 68
    /\ hist.r1 = 2
    /\ hist.r2 = 1
    /\ registers[0] = Max32
    /\ registers[1] = U32(0, 100)
    /\ registers[2] = Max32

\* C10: CMP r1, r2 sets the Zero flag iff R[r1] = R[r2]; for equal operands
\* flags = 0b001 (Negative and Overflow clear); CMP changes no register, no
\* byte of memory and not the PC.
C10_CmpZero ==
    [][ executing(78) =>
          /\ retired
          /\ (flags' % 2 = 1) <=> (registers[r1] = registers[r2])
          /\ (registers[r1] = registers[r2]) => flags' = 1
          /\ UNCHANGED << registers, memory, program_counter >>
      ]_vars

\* C10 witness: CMP of two different registers that both hold 0x80000000
C10_Witness ==
    /\ hist.opcode = 78
    /\ hist.r1 # hist.r2
    /\ hist.v1 = U32(32768, 0)
    /\ hist.v2 = U32(32768, 0)
    /\ flags = 1

(* ------------------------- compare and jumps --------------------------- *)

\* a < b as unsigned 32-bit values
below(a, b) == ~le32(b, a)

\* the Zero, Negative and Overflow bits of a flags byte
zero_set(f) == f % 2 = 1

negative_set(f) == (f \div 2) % 2 = 1

overflow_set(f) == (f \div 4) % 2 = 1

\* flags still holds what the CMP that retired last left in it
after_cmp == hist.opcode = 78 /\ pos \in { "loop", "idle" }

\* C11: for all unsigned 32-bit register values with R[a] < R[b], the
\* Negative flag is set after CMP a, b.
C11_CmpNegative == (after_cmp /\ below(hist.v1, hist.v2)) => negative_set(flags)

\* the flag condition of the conditional jump op on the flags byte f
jump_condition(op, f) ==
    CASE op = 80 -> zero_set(f)
      [] op = 81 -> ~zero_set(f)
      [] op = 82 -> ~zero_set(f) /\ ~negative_set(f)
      [] op = 83 -> negative_set(f)

\* C12: JE branches to R[r1] iff Zero is set, JNE iff Zero is clear, JG iff
\* Zero and Negative are both clear, JL iff Negative is set; a jump whose
\* condition fails leaves PC at the address following the instruction; either
\* way registers, flags and memory are unchanged.
C12_CondJumps ==
    [][ (pos = "dispatch" /\ opcode \in CondJumps) =>
          /\ program_counter = sum_mod(insn_pc, U32(0, 3))
          /\ (jump_condition(opcode, flags) /\ r1 \in RegIdx) =>
                retired /\ program_counter' = registers[r1]
          /\ ~jump_condition(opcode, flags) =>
                retired /\ program_counter' = program_counter
          /\ UNCHANGED << registers, flags, memory >>
      ]_vars

\* JL R1 after CMP R0, R1 with R0 = 5 < R1 = 65533: the branch is taken
C12_Witness ==
    /\ hist.opcode = 83
    /\ hist.r1 = 1
    /\ hist.c1 = Five32
    /\ hist.c2 = U32(0, 65533)
    /\ negative_set(flags)
    /\ program_counter = U32(0, 65533)

\* JE R1 after the same compare: the branch is not taken
C12_WitnessNotTaken ==
    /\ hist.opcode = 80
    /\ hist.c1 = Five32
    /\ hist.c2 = U32(0, 65533)
    /\ ~zero_set(flags)
    /\ program_counter = U32(0, 12)

\* a JG retired after some CMP, and hist.c1, hist.c2 are the operands of the
\* last one
after_jg == hist.opcode = 82 /\ hist.cmps /\ pos = "loop"

\* the jump that retired last went to the value of its register
branched == program_counter = hist.v1

\* C13: JG executed after a CMP a, b (no CMP in between) branches if and only
\* if R[a] > R[b] held, as unsigned 32-bit values, at the time of that CMP.
C13_JgIsUnsignedGreater == after_jg => (branched <=> below(hist.c2, hist.c1))

(* ------------------------------- flags --------------------------------- *)

\* the flags byte of a compare of a with b: Zero for a = b, Negative for
\* bit 31 of (a - b) mod 2^32, Overflow for the borrow a < b
compare_flags(a, b) ==
    (IF a = b THEN 1 ELSE 0)
        + (IF diff_mod(a, b).hi >= 32768 THEN 2 ELSE 0)
        + (IF below(a, b) THEN 4 ELSE 0)

\* what the last CMP that retired computed, 0 before the first
last_compare == IF hist.cmps THEN compare_flags(hist.c1, hist.c2) ELSE 0

\* C14: flags is 0 before the first CMP and afterwards the value the last
\* executed CMP computed from the register values of that time; every step
\* that is not a CMP (the other instructions, their fetches, load_program,
\* run) leaves flags unchanged.
C14_FlagsFollowLastCmp ==
    [][ /\ flags = last_compare
        /\ flags' = last_compare'
        /\ ~(pos = "dispatch" /\ opcode = 78) => flags' = flags
      ]_vars

\* ADD R0, R1 retired after CMP 0xFFFFFFFF, 1: R0 is 0 and flags still
\* holds Negative alone
C14_Witness ==
    /\ hist.opcode = 64
    /\ hist.cmps
    /\ hist.c1 = Max32
    /\ hist.c2 = One32
    /\ registers[0] = Zero32
    /\ flags = 2

\* a program loaded between runs over one whose CMP left flags = 6
C14_WitnessReload ==
    /\ pos = "idle"
    /\ runs = 1
    /\ byte_at(memory, 0) = 255
    /\ byte_at(memory, 12) = 255
    /\ flags = 6

(* --------------------------- register indices -------------------------- *)

\* the handlers that index the register file with both operand bytes, and
\* those that index it with the first only
TwoRegOpcodes == { 64, 65, 66, 67, 68, 69, 72, 73, 74, 76, 77, 78 }

OneRegOpcodes == { 70, 71, 75, 79 }

\* the operand bytes the handler about to run uses as register indices: a
\* conditional jump uses r1 when it branches, HALT uses none
used_indices ==
    IF opcode \in TwoRegOpcodes THEN { r1, r2 }
    ELSE IF opcode \in OneRegOpcodes THEN { r1 }
    ELSE IF opcode \in CondJumps /\ jump_condition(opcode, flags) THEN { r1 }
    ELSE {}

C15_WitnessJump ==
    /\ pos = "panic"
    /\ fault = "IndexOutOfBounds"
    /\ opcode = 83
    /\ r1 = 8
    /\ flags = 6

(* -------------------------------- shifts ------------------------------- *)

\* 2^n as a u32, n < 32
pow2(n) == IF n < 16 THEN U32(0, 2 ^ n) ELSE U32(2 ^ (n - 16), 0)

\* v shifted left by n < 32 bits, truncated to 32 bits: v * 2^n mod 2^32
shifted_left(v, n) == prod_mod(v, pow2(n))

\* w is v shifted right by n < 32 bits: the quotient v / 2^n
is_shifted_right(w, v, n) == is_quotient(w, v, pow2(n))

\* a SHL or SHR retired last; hist.v1 is the value shifted, hist.v2 the amount
after_shift == hist.opcode \in { 76, 77 } /\ pos = "loop"

\* C16: SHL and SHR with a shift amount R[r2] >= 32 set R[r1] to 0 and do
\* not fault; with R[r2] < 32 they set R[r1] to the logical shift of R[r1]
\* by R[r2] bits, truncated to 32 bits.
C16_ShiftAmounts ==
    /\ fault # "ShiftOverflow"
    /\ after_shift =>
          IF hist.v2.hi # 0 \/ hist.v2.lo >= RegBits
          THEN registers[hist.r1] = Zero32
          ELSE IF hist.opcode = 76
          THEN registers[hist.r1] = shifted_left(hist.v1, hist.v2.lo)
          ELSE is_shifted_right(registers[hist.r1], hist.v1, hist.v2.lo)

\* the part of C16 the code does satisfy: amounts below 32
C16_InRange ==
    (after_shift /\ hist.v2.hi = 0 /\ hist.v2.lo < RegBits) =>
        IF hist.opcode = 76
        THEN registers[hist.r1] = shifted_left(hist.v1, hist.v2.lo)
        ELSE is_shifted_right(registers[hist.r1], hist.v1, hist.v2.lo)

(* -------------------------------- faults ------------------------------- *)

\* the faults C17 names
NamedFaults == { "UnknownOpcode", "DivisionByZero", "OutOfBounds" }

\* C17: an instruction that faults with UnknownOpcode, DivisionByZero or
\* OutOfBounds leaves registers, flags and memory as they were before it was
\* fetched (the fetches change none of them, PC alone has advanced, by 3 when
\* the handler is reached); LOAD and STORE fault with OutOfBounds when
\* R[r2] + 3 >= 65536; after a fault no further step is taken.
C17_FaultsAreAtomic ==
    [][ /\ pos \in { "loop", "r1", "r2", "dispatch" } /\ fault' \in NamedFaults =>
              /\ pos' = "panic"
              /\ UNCHANGED << registers, flags, memory >>
              /\ pos = "dispatch" =>
                    /\ program_counter' = program_counter
                    /\ program_counter = sum_mod(insn_pc, U32(0, 3))
        /\ pos \in { "loop", "r1", "r2" } => UNCHANGED << registers, flags, memory >>
        /\ ((executing(68) \/ executing(69)) /\ ~word_in_range(registers[r2])) =>
              fault' = "OutOfBounds"
        /\ pos = "panic" => UNCHANGED vars
      ]_vars

\* STORE R0, R1 with R0 = 5 and R1 = 65533 faulted: memory holds the loaded
\* program and nothing else
C17_Witness ==
    /\ pos = "panic"
    /\ fault = "OutOfBounds"
    /\ opcode = 69
    /\ r1 = 0
    /\ r2 = 1
    /\ registers[0] = Five32
    /\ registers[1] = U32(0, 65533)
    /\ memory = image(prologue \o insn(69, 0, 1) \o insn(255, 0, 0))
    /\ program_counter = U32(0, 9)

(* ------------------------------- decoding ------------------------------ *)

\* the byte of memory k places after the opcode of the instruction being decoded
insn_byte(k) == byte_at(memory, insn_pc.lo + k)

\* the handler about to run assigns program_counter
taken_jump == opcode = 79 \/ (opcode \in CondJumps /\ jump_condition(opcode, flags))

fetching == pos \in { "r1", "r2" } \/ (pos = "loop" /\ ~halted)

\* the value the fetch at position p leaves in its local
fetched_local(p) ==
    CASE p = "loop" -> opcode'
      [] p = "r1" -> r1'
      [] p = "r2" -> r2'

\* C19: every byte is fetched at an address below 65536: a fetch with
\* PC < 65536 yields the byte at PC and advances PC by one; a fetch with
\* PC >= 65536 (after a jump there or after advancing past 65535) faults with
\* OutOfBounds, changing nothing, instead of wrapping to a low address.  JMP
\* sets PC to R[r1] whatever the value.
C19_FetchInBounds ==
    [][ /\ fetching =>
              IF byte_in_range(program_counter)
              THEN /\ fault' = "none"
                   /\ fetched_local(pos) = byte_at(memory, program_counter.lo)
                   /\ program_counter' = sum_mod(program_counter, One32)
              ELSE /\ pos' = "panic"
                   /\ fault' = "OutOfBounds"
                   /\ UNCHANGED << registers, flags, memory, program_counter, locals >>
        /\ (pos = "dispatch" /\ opcode = 79 /\ r1 \in RegIdx) =>
              retired /\ program_counter' = registers[r1]
      ]_vars

\* JMP to 65534: the opcode and r1 are the last two bytes of memory and the
\* fetch of r2 at 65536 faults
C19_Witness ==
    /\ pos = "panic"
    /\ fault = "OutOfBounds"
    /\ hist.opcode = 79
    /\ hist.v1 = U32(0, 65534)
    /\ insn_pc = U32(0, 65534)
    /\ program_counter = U32(1, 0)

\* JMP to 65535: the fetch of r1 at 65536 faults
C19_WitnessLastByte ==
    /\ pos = "panic"
    /\ fault = "OutOfBounds"
    /\ hist.opcode = 79
    /\ insn_pc = U32(0, 65535)
    /\ program_counter = U32(1, 0)

\* JMP to 0xFFFFFFFF: the fetch of the opcode faults
C19_WitnessFarJump ==
    /\ pos = "panic"
    /\ fault = "OutOfBounds"
    /\ hist.opcode = 79
    /\ program_counter = Max32

(* ----------------------------- flag values ----------------------------- *)

\* no flag, Zero, Negative, Overflow, Negative with Overflow
FlagValues == { 0, 1, 2, 4, 6 }

\* C20: in every reachable state flags is one of 0b000, 0b001, 0b010, 0b100,
\* 0b110: bits 3..7 are clear and Zero is never set together with Negative
\* or Overflow.
C20_FlagValues ==
    /\ flags \in FlagValues
    /\ flags < 8
    /\ zero_set(flags) => ~negative_set(flags) /\ ~overflow_set(flags)

\* CMP R0, R1 on equal operands in the program that compares again while
\* they differ: flags is Zero alone
C20_Witness ==
    /\ hist.opcode = 78
    /\ hist.c1 = hist.c2
    /\ flags = 1
    /\ runs = 1
    /\ memory = image(prologue \o insn(78, 0, 1) \o insn(81, 2, 0) \o insn(255, 0, 0))

\* each of the five values occurs
C20_WitnessNegativeOverflow == hist.opcode = 78 /\ flags = 6

C20_WitnessNegative == hist.opcode = 78 /\ flags = 2

C20_WitnessOverflow == hist.opcode = 78 /\ flags = 4

====
